---------------------------- MODULE Spec2Model ----------------------------
(***************************************************************************)
(* Model of the memory + receipts quickstart service:                      *)
(*   src/memory_store.py  MemoryStore (SQLite or in-memory backend)        *)
(*   src/server.py        mem_write, mem_search, mem_revoke,               *)
(*                        verify_receipt, mk_receipt and their helpers     *)
(*                                                                         *)
(* Python values are represented as follows.                               *)
(*   str used only as an opaque name   a TLA+ string                       *)
(*   str that the code inspects        a sequence of characters or tokens  *)
(*   dict                              a sequence of <<key, value>> pairs  *)
(*                                     in insertion order                  *)
(*   list                              a sequence                          *)
(*   None                              the string "None" (NoneVal)         *)
(* The handlers of server.py are plain `def` endpoints: the framework runs *)
(* them on worker threads, so two handlers interleave wherever one of them *)
(* returns from a store statement.                                         *)
(***************************************************************************)
EXTENDS Integers, Sequences, FiniteSets, TLC

\* ---------------------------------------------------------------- bounds
\* Worker threads handling requests at the same time.
NThreads == 2
\* Number of /mem/write calls in one behaviour.
MaxItems == 2
\* Highest value the one-second clock behind now_iso() reaches.
MaxClock == 1

\* Longest issuer identifier, in pieces after the scheme prefix.
MaxDidLen == 5

Threads == 1..NThreads

\* ------------------------------------------------------ program constants
\* server.py:20  KEY_ID = os.getenv("KEY_ID", "dev-1")
KEY_ID == "dev-1"
\* server.py:25  ISSUER_DID = os.getenv("ISSUER_DID", "did:web:localhost")
ISSUER_DID == <<"did:web:", "localhost">>
\* server.py:26
SCHEMA == "proof.v1"
\* server.py:21-23  the key pair derived from DEV_SEED; a key pair is named by
\* its owner, PUBKEY_B64 is the base64 text of the local public key.
LOCAL_KEY == "local"
PubB64(key) == "pub-" \o key
PUBKEY_B64 == PubB64(LOCAL_KEY)
\* memory_store.py:64,71  the snippet is text[:240]
SnippetLen == 240
\* memory_store.py:57,62,74  max(1, min(top_k, 20))
TopKFloor == 1
TopKCeil == 20

NoneVal == "None"

\* ------------------------------------------------------------ input sets
\* Characters of the item texts, queries and tags.
\* WriteReq bodies: text and tags.
WriteReqs ==
    { [text |-> <<"a", "B">>, tags |-> << <<"t">>, <<"c">> >>],
      [text |-> <<"c">>, tags |-> <<>>] }
Queries == { <<"b">>, <<"_">> }
\* SearchReq.tags: Optional[List[str]]; None is [none |-> TRUE].
NoTags == [none |-> TRUE, v |-> <<>>]
TagsOf(list) == [none |-> FALSE, v |-> list]
QueryTags == { NoTags, TagsOf(<< <<"c">> >>) }
TopKs == { 0, 5 }
\* A mid no write ever returned.
UnknownMid == "nope"

\* ------------------------------------------------------------- dict, str
Has(d, k) == \E i \in 1..Len(d) : d[i][1] = k
Get(d, k) == d[CHOOSE i \in 1..Len(d) : d[i][1] = k][2]
\* d[k] = v on a dict: replaces in place, or appends a new key.
Put(d, k, v) ==
    IF Has(d, k)
    THEN [i \in 1..Len(d) |-> IF d[i][1] = k THEN <<k, v>> ELSE d[i]]
    ELSE Append(d, <<k, v>>)
\* del d[k]
Del(d, k) == SelectSeq(d, LAMBDA p : p[1] # k)

Min(a, b) == IF a <= b THEN a ELSE b
Max(a, b) == IF a >= b THEN a ELSE b
Take(s, n) == SubSeq(s, 1, Min(n, Len(s)))

\* str.lower() / SQL LOWER() on the characters in use.
LowerChar(c) ==
    CASE c = "A" -> "a"
      [] c = "B" -> "b"
      [] c = "C" -> "c"
      [] c = "T" -> "t"
      [] c = "X" -> "x"
      [] OTHER -> c
Lower(s) == [i \in 1..Len(s) |-> LowerChar(s[i])]

\* Python `a in b` on strings.
IsSubstr(a, b) ==
    \E i \in 0..(Len(b) - Len(a)) : SubSeq(b, i + 1, i + Len(a)) = a

\* uuid.uuid4(): the n-th identifier drawn by the process; all are distinct.
Uuid(n) == "id" \o ToString(n)


\* ------------------------------------------------------- signing, receipts
\* json.dumps(obj, sort_keys=True, separators=(",", ":")): the members in
\* lexicographic key order, nothing else, and so again inside every member
\* that is itself an object; the keys in use, sorted.  The members named in
\* ObjectKeys hold objects, every other member a string, a number or a list.
SortedKeys ==
    <<"a", "b", "badge", "flags", "issuer", "kid", "meta", "revoke_of", "rid",
      "schema", "sig", "when", "where">>
ObjectKeys == { "meta" }

RECURSIVE CanonFrom(_, _)
CanonFrom(obj, i) ==
    IF i > Len(SortedKeys) THEN <<>>
    ELSE (IF Has(obj, SortedKeys[i])
          THEN << <<SortedKeys[i],
                    IF SortedKeys[i] \in ObjectKeys
                    THEN CanonFrom(Get(obj, SortedKeys[i]), 1)
                    ELSE Get(obj, SortedKeys[i])>> >>
          ELSE <<>>) \o CanonFrom(obj, i + 1)

\* The members as they were inserted.
canonicalMutUnsorted(obj) == obj

canonical(obj) == CanonFrom(obj, 1)

\* The pieces a sig string is made of: an algorithm tag such as "ed25519:",
\* the base64 text of an Ed25519 signature (made with `key` over `msg`), or
\* other text.
TagTok(tag) == [kind |-> tag, key |-> "", msg |-> <<>>]
SigTok(key, msg) == [kind |-> "b64sig", key |-> key, msg |-> msg]
StrVal(toks) == [ty |-> "str", toks |-> toks]

\* signing_key.sign(msg).signature, base64 encoded, behind the tag.
sign_with(key, fields) ==
    StrVal(<<TagTok("ed25519:"), SigTok(key, canonical(fields))>>)

sign_fields(fields) == sign_with(LOCAL_KEY, fields)

\* Python truth value of an Optional[str].
TruthyMutAlways(v) == v = v

Truthy(v) == v # NoneVal /\ v # ""

mk_receipt(rid, badge, flags, revoke_of, now) ==
    LET base == << <<"rid", rid>>, <<"issuer", ISSUER_DID>>, <<"kid", KEY_ID>>,
                   <<"when", now>>, <<"where", "geo:none">>, <<"badge", badge>>,
                   <<"flags", flags>>, <<"schema", SCHEMA>> >>
        fields == IF Truthy(revoke_of)
                  THEN Put(base, "revoke_of", revoke_of)
                  ELSE base
    IN  Put(fields, "sig", sign_fields(fields))

\* ------------------------------------------------------------------ state
VARIABLES
    use_sqlite,   \* MemoryStore.use_sqlite, fixed at construction
    requests,     \* whether `import requests` succeeded (server.py:10-13)
    mem,          \* the rows of table memories / the values of _mem, in
                  \* insertion order
    revoked,      \* mids with revoked=1 / the set _revoked
    clock,        \* the second now_iso() reads
    uuids,        \* how many uuid4 values have been drawn
    thr,          \* per worker thread: where it stands inside mem_revoke
    issued,       \* every 200 response of /mem/write and /mem/revoke so far:
                  \* [op, mid, receipt]
    last          \* the most recent response of a handler

vars == <<use_sqlite, requests, mem, revoked, clock, uuids, thr, issued, last>>

Idle == [pc |-> "idle", mid |-> "", row |-> ""]
Mids == { mem[i].mid : i \in 1..Len(mem) }
ItemOf(mid) == mem[CHOOSE i \in 1..Len(mem) : mem[i].mid = mid]
AnIdleThread == \E t \in Threads : thr[t].pc = "idle"

Init ==
    /\ use_sqlite \in BOOLEAN
    /\ requests = TRUE
    /\ mem = <<>>
    /\ revoked = {}
    /\ clock = 0
    /\ uuids = 0
    /\ thr = [t \in Threads |-> Idle]
    /\ issued = {}
    /\ last = [op |-> "none"]

\* ------------------------------------------------------------ MemoryStore
\* MemoryStore.write: INSERT (the mid is new) or _mem[mid] = item.
StoreWrite(item) ==
    /\ mem' = IF item.mid \in Mids
              THEN [i \in 1..Len(mem) |->
                       IF mem[i].mid = item.mid THEN item ELSE mem[i]]
              ELSE Append(mem, item)
    /\ revoked' = revoked

\* The first statement of MemoryStore.revoke: what the SELECT (sqlite) or the
\* membership test (in-memory) finds for `mid`.
RevokeFindsMutAny(mid) == mid \in Mids

RevokeFinds(mid) == mid \in Mids /\ mid \notin revoked

\* The second statement of MemoryStore.revoke: UPDATE ... SET revoked=1 and
\* commit (sqlite) or _revoked.add(mid) (in-memory); the new revoked mids.
StoreRevokeSetMutToggle(mid) ==
    IF mid \in revoked THEN revoked \ {mid} ELSE revoked \cup {mid}

StoreRevokeSet(mid) == revoked \cup {mid}

\* The rid MemoryStore.revoke returns: row["rid"] of the SELECT (sqlite), or
\* _mem[mid]["rid"] read after the add (in-memory).
RevokeReturnsMutMid(t) == thr[t].mid

RevokeReturns(t) ==
    IF use_sqlite THEN thr[t].row ELSE ItemOf(thr[t].mid).rid


\* SQLite `s LIKE pat`: % matches any run of characters, _ one character,
\* letters match without regard to case.
RECURSIVE Like(_, _)
Like(s, pat) ==
    IF pat = <<>> THEN s = <<>>
    ELSE IF Head(pat) = "%"
         THEN Like(s, Tail(pat)) \/ (s # <<>> /\ Like(Tail(s), pat))
    ELSE IF s = <<>> THEN FALSE
    ELSE /\ (Head(pat) = "_" \/ LowerChar(Head(pat)) = LowerChar(Head(s)))
         /\ Like(Tail(s), Tail(pat))

\* json.dumps(tags) with the default separators: ["a", "bc"]
RECURSIVE JsonDumpItems(_)
JsonDumpItems(tags) ==
    IF tags = <<>> THEN <<>>
    ELSE <<"\"">> \o Head(tags) \o <<"\"">>
         \o (IF Len(tags) > 1 THEN <<",", " ">> ELSE <<>>)
         \o JsonDumpItems(Tail(tags))

JsonDump(tags) == <<"[">> \o JsonDumpItems(tags) \o <<"]">>

\* json.loads of such a text: the strings between the quotes, in order.
RECURSIVE JsonLoadFrom(_, _, _, _)
JsonLoadFrom(txt, inStr, cur, acc) ==
    IF txt = <<>> THEN acc
    ELSE IF Head(txt) = "\""
         THEN IF inStr
              THEN JsonLoadFrom(Tail(txt), FALSE, <<>>, Append(acc, cur))
              ELSE JsonLoadFrom(Tail(txt), TRUE, <<>>, acc)
    ELSE IF inStr
         THEN JsonLoadFrom(Tail(txt), TRUE, Append(cur, Head(txt)), acc)
    ELSE JsonLoadFrom(Tail(txt), FALSE, cur, acc)

JsonLoad(txt) == JsonLoadFrom(txt, FALSE, <<>>, <<>>)

\* max(1, min(top_k, 20))
Limit(top_k) == Max(TopKFloor, Min(top_k, TopKCeil))

\* Python truth value of SearchReq.tags (None and [] are false).
TagsGiven(tags) == ~tags.none /\ Len(tags.v) > 0

\* The WHERE clause without its revoked=0 conjunct (memory_store.py:56,61).
SqlTextMatch(it, q, tags) ==
    /\ Like(Lower(it.text), <<"%">> \o Lower(q) \o <<"%">>)
    /\ TagsGiven(tags) =>
           Like(JsonDump(it.tags), <<"%">> \o tags.v[1] \o <<"%">>)

\* The in-memory test of memory_store.py:70.
MemTextMatch(it, q, tags) ==
    \/ IsSubstr(Lower(q), Lower(it.text))
    \/ /\ TagsGiven(tags)
       /\ \E i \in 1..Len(tags.v) : \E j \in 1..Len(it.tags) :
              tags.v[i] = it.tags[j]

\* Which stored items a search may return: the live ones that match.
SearchSelectsMutNoFilter(it, q, tags) ==
    IF use_sqlite THEN SqlTextMatch(it, q, tags) ELSE MemTextMatch(it, q, tags)

SearchSelects(it, q, tags) ==
    /\ it.mid \notin revoked
    /\ IF use_sqlite THEN SqlTextMatch(it, q, tags) ELSE MemTextMatch(it, q, tags)

\* The result entry built from a row (sqlite) or an item (in-memory).
Entry(it) ==
    [mid |-> it.mid, snippet |-> Take(it.text, SnippetLen),
     tags |-> IF use_sqlite THEN JsonLoad(JsonDump(it.tags)) ELSE it.tags,
     created_at |-> it.created_at]

Matching(q, tags) == SelectSeq(mem, LAMBDA it : SearchSelects(it, q, tags))

\* list.sort(key=created_at, reverse=True): stable, so entries of the same
\* second keep their insertion order.
RECURSIVE InsertDesc(_, _)
InsertDesc(sorted, it) ==
    IF sorted = <<>> THEN <<it>>
    ELSE IF Head(sorted).created_at >= it.created_at
         THEN <<Head(sorted)>> \o InsertDesc(Tail(sorted), it)
    ELSE <<it>> \o sorted

\* The list left in insertion order.
SortDescMutUnsorted(s) == s

RECURSIVE SortDesc(_)
SortDesc(s) ==
    IF s = <<>> THEN <<>>
    ELSE InsertDesc(SortDesc(SubSeq(s, 1, Len(s) - 1)), s[Len(s)])

\* ORDER BY created_at DESC: any order of the rows that is non-increasing in
\* created_at (SQL leaves the order of equal keys open).
OrderedBy(rows) ==
    LET n == Len(rows)
        perms == { p \in [1..n -> 1..n] : \A i, j \in 1..n : i # j => p[i] # p[j] }
    IN  { [i \in 1..n |-> rows[p[i]]] : p \in
            { p \in perms : \A i \in 1..(n - 1) :
                  rows[p[i]].created_at >= rows[p[i + 1]].created_at } }

\* MemoryStore.search: the result lists it can return.
StoreSearch(q, tags, top_k) ==
    LET rows == Matching(q, tags)
        orders == IF use_sqlite THEN OrderedBy(rows) ELSE { SortDesc(rows) }
    IN  { [i \in 1..Min(Limit(top_k), Len(o)) |-> Entry(o[i])] : o \in orders }


\* ---------------------------------------------------------------- handlers
\* The mids whose revocation a handler has already answered with 200.
RevokeReturned == { x.mid : x \in { y \in issued : y.op = "revoke" } }
\* The receipts handed out so far.
Receipts == { x.receipt : x \in issued }

\* POST /mem/write.  ttl_days is not given, so expires_at is None; scope and
\* consent take their defaults.
mem_write(text, tags) ==
    /\ AnIdleThread
    /\ Len(mem) < MaxItems
    /\ LET mid == Uuid(uuids + 1)
           rid == Uuid(uuids + 2)
           item == [mid |-> mid, text |-> text, tags |-> tags,
                    scope |-> "private", consent |-> "explicit",
                    created_at |-> clock, expires_at |-> NoneVal, rid |-> rid]
           receipt == mk_receipt(rid, "green", <<"mem.write">>, NoneVal, clock)
       IN  /\ StoreWrite(item)
           /\ uuids' = uuids + 2
           /\ issued' = issued \cup {[op |-> "write", mid |-> mid,
                                        receipt |-> receipt]}
           /\ last' = [op |-> "write", status |-> 200, mid |-> mid,
                       receipt |-> receipt]
    /\ UNCHANGED <<use_sqlite, requests, clock, thr>>

\* POST /mem/search.  revokedBefore records, for the reader of the response,
\* the revocations that had been answered when the search started.
mem_search(q, tags, top_k) ==
    /\ AnIdleThread
    /\ \E results \in StoreSearch(q, tags, top_k) :
           last' = [op |-> "search", status |-> 200, q |-> q, tags |-> tags,
                    top_k |-> top_k, results |-> results,
                    revokedBefore |-> RevokeReturned]
    /\ UNCHANGED <<use_sqlite, requests, mem, revoked, clock, uuids, thr, issued>>

\* POST /mem/revoke, up to the end of the first statement of store.revoke.
\* Nothing found: store.revoke returns "" and the handler answers 404.
mem_revoke_select(t, mid) ==
    /\ thr[t].pc = "idle"
    /\ IF RevokeFinds(mid)
       THEN /\ thr' = [thr EXCEPT ![t] =
                          [pc |-> "revoke_update", mid |-> mid,
                           row |-> IF use_sqlite THEN ItemOf(mid).rid ELSE ""]]
            /\ last' = last
       ELSE /\ thr' = thr
            /\ last' = [op |-> "revoke", status |-> 404, mid |-> mid]
    /\ UNCHANGED <<use_sqlite, requests, mem, revoked, clock, uuids, issued>>

\* The rest of the call: the UPDATE and commit (sqlite) or _revoked.add
\* (in-memory), then the revocation receipt.
mem_revoke_update(t) ==
    /\ thr[t].pc = "revoke_update"
    /\ LET mid == thr[t].mid
           revoke_of == RevokeReturns(t)
           rid == Uuid(uuids + 1)
           receipt == mk_receipt(rid, "amber", <<"mem.revoke", mid>>,
                                 revoke_of, clock)
       IN  /\ revoked' = StoreRevokeSet(mid)
           /\ IF Truthy(revoke_of)
              THEN /\ uuids' = uuids + 1
                   /\ issued' = issued \cup {[op |-> "revoke", mid |-> mid,
                                                receipt |-> receipt]}
                   /\ last' = [op |-> "revoke", status |-> 200, mid |-> mid,
                               receipt |-> receipt]
              ELSE /\ UNCHANGED <<uuids, issued>>
                   /\ last' = [op |-> "revoke", status |-> 404, mid |-> mid]
    /\ thr' = [thr EXCEPT ![t] = Idle]
    /\ UNCHANGED <<use_sqlite, requests, mem, clock>>

\* A second passes.
Tick ==
    /\ clock < MaxClock
    /\ clock' = clock + 1
    /\ UNCHANGED <<use_sqlite, requests, mem, revoked, uuids, thr, issued, last>>

\* ------------------------------------------------------------- /verify
\* did_web_to_wellknown.  A DID is a sequence of pieces: the scheme prefix
\* ("did:web:", "did:key:"), names, and the separators ":" and "/".  No URL
\* (Python None) is <<>>.
NoUrl == <<>>
ReplaceColon(piece) ==
    CASE piece = ":" -> "/"
      [] piece = "did:web:" -> "did/web/"
      [] piece = "did:key:" -> "did/key/"
      [] OTHER -> piece

did_web_to_wellknown(did) ==
    IF ~(Len(did) >= 1 /\ did[1] = "did:web:") THEN NoUrl
    ELSE <<"https://">>
         \o [i \in 1..(Len(did) - 1) |-> ReplaceColon(did[i + 1])]
         \o <<"/.well-known/receipts.json">>

\* One entry of a discovery document's "keys"; isObj is false for an entry
\* that is not a JSON object.  A member that is absent reads as None.
KeyEntry(kid, pub) == [isObj |-> TRUE, kid |-> kid, publicKeyBase64 |-> pub]
NotAnObject == [isObj |-> FALSE, kid |-> NoneVal, publicKeyBase64 |-> NoneVal]

\* What requests.get(url, timeout=3).json() does:
\*   "error"        raises (timeout, refused, body not JSON)
\*   "notdict"      JSON that is not an object
\*   "nokeys"       an object without "keys"
\*   "keys"         an object whose "keys" is the list `keys`
\*   "keysNotList"  an object whose "keys" is a number
Response(kind, keys) == [kind |-> kind, keys |-> keys]
NoFetch == Response("nofetch", <<>>)

\* server.py:126,129
Required == <<"rid", "issuer", "kid", "when", "where", "badge", "flags", "schema", "sig">>
SignedKeys == <<"rid", "issuer", "kid", "when", "where", "badge", "flags", "schema">>

\* server.py:129  the dict the verifier canonicalizes.
VerifyFields(payload) ==
    LET present == SelectSeq(SignedKeys, LAMBDA k : Has(payload, k))
    IN  [i \in 1..Len(present) |-> <<present[i], Get(payload, present[i])>>]

\* payload["sig"].split("ed25519:")[-1]: what follows the last tag.
SplitLast(toks) ==
    LET tags == { i \in 1..Len(toks) : toks[i].kind = "ed25519:" }
    IN  IF tags = {} THEN toks
        ELSE SubSeq(toks, (CHOOSE i \in tags : \A j \in tags : j <= i) + 1, Len(toks))

\* base64.b64decode (not validating): characters outside the alphabet ("!")
\* are dropped; the bytes are a signature only if what is left is the text
\* of one.
NotASig == [kind |-> "bytes", key |-> "", msg |-> <<>>]
B64Decode(toks) ==
    LET kept == SelectSeq(toks, LAMBDA x : x.kind # "!")
    IN  IF Len(kept) = 1 /\ kept[1].kind = "b64sig" THEN kept[1] ELSE NotASig

\* The key pairs that exist; VerifyKey accepts only the text of a public key.
KeyOwners == { LOCAL_KEY, "foreign" }
IsPubKey(pkey) == \E k \in KeyOwners : pkey = PubB64(k)

\* VerifyKey(pub).verify(msg, sig) does not raise.
SigVerifies(pkey, msg, sig) ==
    /\ sig.kind = "b64sig"
    /\ pkey = PubB64(sig.key)
    /\ sig.msg = msg

\* The responses of the handler.
\*   status  200, 400 (HTTPException) or 500 (an exception left the handler)
\*   fetches how many discovery requests were sent
\*   source  "local" or "fetched": where the candidate keys came from
\*   tried   the public key the signature was checked against, None if the
\*           handler did not get that far
\* A response without an issuer member has issuer <<>>.
NoIssuer == <<>>
Outcome(status, valid, issuer, kid, error, fetches, source, tried) ==
    [status |-> status, valid |-> valid, issuer |-> issuer, kid |-> kid,
     error |-> error, fetches |-> fetches, source |-> source, tried |-> tried]

\* server.py:133-143  the candidate keys: <<usable as a list, entries, source>>
Candidates(fetched, resp) ==
    IF fetched /\ resp.kind = "keys" THEN <<TRUE, resp.keys, "fetched">>
    ELSE IF fetched /\ resp.kind = "keysNotList" THEN <<FALSE, <<>>, "fetched">>
    ELSE <<TRUE, <<KeyEntry(KEY_ID, PUBKEY_B64)>>, "local">>

\* server.py:146-150  pick key by kid (or fall back to the first): the key
\* text, or "raise" where the code raises outside its try block.
PickKey(isList, cand, kid) ==
    LET kidTrue == kid # NoneVal /\ kid # ""
        hits == { i \in 1..Len(cand) : cand[i].isObj /\ cand[i].kid = kid }
        bad == { i \in 1..Len(cand) : ~cand[i].isObj }
        hit == IF kidTrue /\ hits # {}
               THEN CHOOSE i \in hits : \A j \in hits : i <= j ELSE 0
        loopRaises == kidTrue /\ \E b \in bad : hit = 0 \/ b < hit
        pkey == IF hit = 0 THEN NoneVal ELSE cand[hit].publicKeyBase64
        falsy == pkey = NoneVal \/ pkey = ""
    IN  IF ~isList \/ loopRaises THEN "raise"
        ELSE IF ~falsy THEN pkey
        ELSE IF Len(cand) = 0 \/ ~cand[1].isObj THEN "raise"
        ELSE cand[1].publicKeyBase64

\* server.py:136  whether the issuer's discovery address is looked up.
AsksIssuerMutAlways(issuer) == issuer = issuer

AsksIssuer(issuer) == issuer # ISSUER_DID /\ requests

\* POST /verify with body `payload`, the discovery endpoint answering `resp`
\* if it is asked.
verify_receipt(payload, resp) ==
    LET missing == { i \in 1..Len(Required) : ~Has(payload, Required[i]) }
    IN  IF missing # {}
        THEN Outcome(400, FALSE, NoIssuer, NoneVal,
                     "missing field: " \o Required[CHOOSE i \in missing :
                                                      \A j \in missing : i <= j],
                     0, NoneVal, NoneVal)
        ELSE
    LET fields == VerifyFields(payload)
        sig == Get(payload, "sig")
        issuer == Get(payload, "issuer")
        kid == Get(payload, "kid")
        url == IF AsksIssuer(issuer)
               THEN did_web_to_wellknown(issuer) ELSE NoUrl
        fetched == url # NoUrl
        fetches == IF fetched THEN 1 ELSE 0
        cand == Candidates(fetched, resp)
        pkey == PickKey(cand[1], cand[2], kid)
    IN  IF sig.ty # "str"
        THEN Outcome(500, FALSE, NoIssuer, NoneVal, "AttributeError", 0, NoneVal, NoneVal)
        ELSE IF pkey = "raise"
        THEN Outcome(500, FALSE, NoIssuer, NoneVal, "raised", fetches, cand[3], NoneVal)
        ELSE IF ~IsPubKey(pkey)
        THEN Outcome(200, FALSE, NoIssuer, NoneVal, "bad key", fetches, cand[3], NoneVal)
        ELSE IF SigVerifies(pkey, canonical(fields), B64Decode(SplitLast(sig.toks)))
        THEN Outcome(200, TRUE, issuer, kid, "", fetches, cand[3], pkey)
        ELSE Outcome(200, FALSE, NoIssuer, NoneVal, "Signature was forged or corrupt",
                     fetches, cand[3], pkey)

\* ------------------------------------------------- bodies posted to /verify
ForeignDids == { <<"did:web:", "evil.example">>, <<"did:key:", "z6Mk">> }
FOREIGN_KID == "f-1"

\* Another value for field f than v.
AltValue(f, v) ==
    CASE f = "when" -> v + 1
      [] f = "flags" -> Append(v, "x")
      [] f = "badge" -> IF v = "green" THEN "red" ELSE "green"
      [] f = "rid" -> "id0"
      [] f = "kid" -> "dev-2"
      [] f = "where" -> "geo:x"
      [] f = "schema" -> "proof.v2"
      [] f = "revoke_of" -> "id0"

\* A receipt with one field changed after it was issued.
Tampered(r) ==
    { Put(r, f, AltValue(f, Get(r, f))) :
          f \in {"rid", "kid", "when", "where", "badge", "flags", "schema"} }
    \cup { Put(r, "kid", "") }
    \cup { Put(r, "issuer", d) : d \in ForeignDids }
    \cup (IF Has(r, "revoke_of")
          THEN { Put(r, "revoke_of", AltValue("revoke_of", Get(r, "revoke_of"))),
                 Del(r, "revoke_of") }
          ELSE { Put(r, "revoke_of", "id0") })

\* A receipt with one required field removed.
Dropped(r) == { Del(r, Required[i]) : i \in 1..Len(Required) }

\* A receipt whose sig is not "ed25519:" followed by base64 text.
SigForms(r) ==
    LET blob == Get(r, "sig").toks[2]
    IN  { Put(r, "sig", v) : v \in
            { [ty |-> "int", toks |-> <<>>],
              StrVal(<<blob>>),
              StrVal(<<TagTok("rsa:"), blob>>),
              StrVal(<<TagTok("rsa:"), TagTok("ed25519:"), TagTok("!"), blob>>),
              StrVal(<<blob, TagTok("ed25519:")>>) } }

\* A receipt of the same content naming a foreign issuer and key id, signed
\* with one of the existing keys over all its fields.
Resigned(r) ==
    { LET f == Put(Put(Del(r, "sig"), "issuer", d), "kid", FOREIGN_KID)
      IN  Put(f, "sig", sign_with(k, f)) : d \in ForeignDids, k \in KeyOwners }

\* The bodies a client posts: the receipt the service has just returned to
\* it, as issued or altered (verify_receipt reads nothing of the store, so
\* when a receipt is posted does not matter).
BodiesOf(r) ==
    {r} \cup Tampered(r) \cup Dropped(r) \cup SigForms(r) \cup Resigned(r)

Bodies ==
    IF last.op \in {"write", "revoke"} /\ last.status = 200
    THEN BodiesOf(last.receipt) ELSE {}

Responses ==
    { Response("error", <<>>), Response("notdict", <<>>), Response("nokeys", <<>>),
      Response("keysNotList", <<>>),
      Response("keys", <<>>),
      Response("keys", <<NotAnObject>>),
      Response("keys", <<KeyEntry(FOREIGN_KID, PubB64("foreign"))>>),
      Response("keys", <<KeyEntry("f-0", PubB64("foreign"))>>),
      Response("keys", <<KeyEntry("f-0", PubB64(LOCAL_KEY)),
                         KeyEntry(FOREIGN_KID, "")>>) }

\* What the discovery endpoint may answer to the request this body causes;
\* NoFetch if the body causes none.
AnswersTo(payload) ==
    IF verify_receipt(payload, NoFetch).fetches = 0 THEN {NoFetch} ELSE Responses

\* A handler that would clear the revoked flags while verifying.
verifyMutClearsRevoked(payload, resp) ==
    /\ AnIdleThread
    /\ LET out == verify_receipt(payload, resp)
       IN  last' = [op |-> "verify", payload |-> payload, resp |-> resp,
                    status |-> out.status, valid |-> out.valid,
                    issuer |-> out.issuer, kid |-> out.kid, error |-> out.error,
                    fetches |-> out.fetches, source |-> out.source,
                    tried |-> out.tried]
    /\ revoked' = {}
    /\ UNCHANGED <<use_sqlite, requests, mem, clock, uuids, thr, issued>>

\* POST /verify.  The response keeps the body and what the discovery endpoint
\* answered.
verify(payload, resp) ==
    /\ AnIdleThread
    /\ LET out == verify_receipt(payload, resp)
       IN  last' = [op |-> "verify", payload |-> payload, resp |-> resp,
                    status |-> out.status, valid |-> out.valid,
                    issuer |-> out.issuer, kid |-> out.kid, error |-> out.error,
                    fetches |-> out.fetches, source |-> out.source,
                    tried |-> out.tried]
    /\ UNCHANGED <<use_sqlite, requests, mem, revoked, clock, uuids, thr, issued>>

\* ---------------------------------------------------------- the service
Next ==
    \/ \E req \in WriteReqs : mem_write(req.text, req.tags)
    \/ \E q \in Queries, tags \in QueryTags, k \in TopKs : mem_search(q, tags, k)
    \/ \E t \in Threads, mid \in Mids \cup {UnknownMid} : mem_revoke_select(t, mid)
    \/ \E t \in Threads : mem_revoke_update(t)
    \/ Tick

Spec == Init /\ [][Next]_vars

\* ------------------------------------------- the service seen by a verifier
\* Receipts are issued by the handlers and then posted, as issued or altered,
\* to /verify; every write carries the same text, the clock stands still.
InitV ==
    /\ use_sqlite \in BOOLEAN
    /\ requests \in BOOLEAN
    /\ mem = <<>>
    /\ revoked = {}
    /\ clock = 0
    /\ uuids = 0
    /\ thr = [t \in Threads |-> Idle]
    /\ issued = {}
    /\ last = [op |-> "none"]

NextV ==
    \/ mem_write(<<"c">>, <<>>)
    \/ \E t \in Threads, mid \in Mids \cup {UnknownMid} : mem_revoke_select(t, mid)
    \/ \E t \in Threads : mem_revoke_update(t)
    \/ \E payload \in Bodies : \E resp \in AnswersTo(payload) : verify(payload, resp)

SpecVerify == InitV /\ [][NextV]_vars

\* --------------------------------------------- the service seen by a reader
\* Writes, revocations and searches with texts and tag lists chosen so that
\* one query matches several items, by text, by tag, or by both.
SearchWrites ==
    { [text |-> <<"a", "B">>, tags |-> << <<"t">>, <<"c">> >>],
      [text |-> <<"b">>, tags |-> <<>>] }
SearchTags == { NoTags, TagsOf(<< <<"x">>, <<"c">> >>) }

NextS ==
    \/ \E req \in SearchWrites : mem_write(req.text, req.tags)
    \/ \E q \in Queries, tags \in SearchTags, k \in TopKs : mem_search(q, tags, k)
    \/ \E mid \in Mids : mem_revoke_select(1, mid)
    \/ mem_revoke_update(1)
    \/ Tick

SpecSearch == Init /\ [][NextS]_vars

\* ------------------------------------------------- discovery addresses
\* did_web_to_wellknown applied to issuer identifiers: a scheme prefix or
\* none, then up to MaxDidLen pieces (names, ":" and "/").
DidNames == { "example.com", "8443", "user" }
DidPieces == DidNames \cup { ":", "/" }
DidBodies == UNION { [1..n -> DidPieces] : n \in 0..MaxDidLen }
Dids ==
    DidBodies \cup { <<scheme>> \o b : scheme \in {"did:web:", "did:key:"},
                                        b \in DidBodies }

InitD ==
    /\ use_sqlite = FALSE
    /\ requests = TRUE
    /\ mem = <<>>
    /\ revoked = {}
    /\ clock = 0
    /\ uuids = 0
    /\ thr = [t \in Threads |-> Idle]
    /\ issued = {}
    /\ \E did \in Dids : last = [op |-> "did", did |-> did, url |-> NoUrl]

\* url = did_web_to_wellknown(did)
wellknown ==
    /\ last.op = "did"
    /\ last' = [op |-> "wellknown", did |-> last.did,
                url |-> did_web_to_wellknown(last.did)]
    /\ UNCHANGED <<use_sqlite, requests, mem, revoked, clock, uuids, thr, issued>>

NextD == wellknown

SpecDid == InitD /\ [][NextD]_vars

\* ------------------------------------------------------- canonical bytes
\* canonical applied by the issuer and by the verifier to field mappings
\* that hold an object, which holds an object again, in every insertion
\* order of the members at each level.
Orders(members) ==
    LET n == Cardinality(members)
    IN  { d \in [1..n -> members] : \A i, j \in 1..n : i # j => d[i] # d[j] }
InnerDicts ==
    UNION { Orders({ <<"a", x>>, <<"b", y>> }) : x \in {"x", "y"}, y \in {"x", "y"} }
MidDicts ==
    UNION { Orders({ <<"kid", KEY_ID>>, <<"meta", d>> }) : d \in InnerDicts }
FieldDicts ==
    UNION { Orders({ <<"rid", "id1">>, <<"meta", d>> }) : d \in MidDicts }

InitC ==
    /\ use_sqlite = FALSE
    /\ requests = TRUE
    /\ mem = <<>>
    /\ revoked = {}
    /\ clock = 0
    /\ uuids = 0
    /\ thr = [t \in Threads |-> Idle]
    /\ issued = {}
    /\ \E a \in FieldDicts, b \in FieldDicts :
           last = [op |-> "fields", signed |-> a, checked |-> b]

\* The issuer signs `signed` (server.py:53-55); the verifier checks that
\* signature over canonical(`checked`) with the local key (server.py:153).
canonicalize ==
    /\ last.op = "fields"
    /\ LET sig == sign_fields(last.signed)
       IN  last' = [op |-> "canonical", signed |-> last.signed,
                    checked |-> last.checked,
                    signedBytes |-> canonical(last.signed),
                    checkedBytes |-> canonical(last.checked),
                    verifies |-> SigVerifies(PUBKEY_B64, canonical(last.checked),
                                             B64Decode(SplitLast(sig.toks)))]
    /\ UNCHANGED <<use_sqlite, requests, mem, revoked, clock, uuids, thr, issued>>

NextC == canonicalize

SpecCanon == InitC /\ [][NextC]_vars

\* ------------------------------------------------------------------ claims
RevokeResponses(mid) == { x \in issued : x.op = "revoke" /\ x.mid = mid }
IsVerify == last.op = "verify"
PostedIssuer == Get(last.payload, "issuer")

\* C1: however N >= 2 concurrent revoke calls on one live mid interleave, at
\* most one of them is answered with a receipt (the others get 404).
C1_OneRevokeSucceeds ==
    \A mid \in Mids : Cardinality(RevokeResponses(mid)) <= 1

\* C2: a receipt naming a foreign issuer is found valid only under a key
\* taken from that issuer's fetched discovery document, never under the
\* local key.
C2_ForeignNeedsFetchedKey ==
    (IsVerify /\ last.valid /\ PostedIssuer # ISSUER_DID)
        => /\ last.source = "fetched"
           /\ \E i \in 1..Len(last.resp.keys) :
                  last.resp.keys[i].publicKeyBase64 = last.tried

\* C3: every receipt the service issued, write or revocation, posted
\* unchanged to /verify is found valid, with the local issuer and key id.
C3_RoundTrip ==
    (IsVerify /\ last.payload \in Receipts)
        => /\ last.status = 200
           /\ last.valid
           /\ last.issuer = ISSUER_DID
           /\ last.kid = KEY_ID

\* C4: an issued receipt with any single field changed (revoke_of added,
\* altered or removed included) is never found valid.
C4_TamperedRejected ==
    (IsVerify /\ \E r \in Receipts : last.payload \in Tampered(r))
        => ~last.valid

\* C5: when the issuer is foreign and the discovery fetch fails or returns a
\* malformed document, the answer is valid:false with reason KeyUnavailable,
\* and no signature check against any key is made.
C5_FetchFailureIsKeyUnavailable ==
    (IsVerify /\ last.fetches = 1
              /\ last.resp.kind \in {"error", "notdict", "nokeys", "keysNotList"})
        => /\ last.status = 200
           /\ ~last.valid
           /\ last.error = "KeyUnavailable"
           /\ last.tried = NoneVal

\* C6: no body and no discovery response makes the handler end with an
\* exception: every verification ends with a response of its own.
C6_VerifyNeverRaises ==
    IsVerify => last.status # 500

\* C7: a search never returns an item whose revocation had been answered
\* before the search started, on either backend, whatever the query.
C7_RevokedNeverReturned ==
    last.op = "search" =>
        \A i \in 1..Len(last.results) : last.results[i].mid \notin last.revokedBefore

\* A search whose query matches an item revoked before it.
C7_Witness ==
    /\ last.op = "search"
    /\ \E i \in 1..Len(mem) :
           /\ mem[i].mid \in last.revokedBefore
           /\ SearchSelectsMutNoFilter(mem[i], last.q, last.tags)

\* C8: once an item's revoked flag is set no step clears it, and no write
\* brings a revoked mid back.
C8_RevokedMonotonic ==
    [][revoked \subseteq revoked' /\ (Mids \cap revoked) \subseteq (Mids' \cap revoked')]_vars

\* A write handled after an item was revoked.
C8_Witness ==
    /\ last.op = "write"
    /\ revoked # {}

\* C9: a revoke call goes past the store's check only for a known, live mid;
\* a call answered 404 changes no item, no revoked flag and issues nothing;
\* a revocation receipt comes only from a call whose store revoke returned a
\* non-empty rid.
C9_FailedRevokeHasNoEffect ==
    [][ /\ \A t \in Threads :
              (thr[t].pc = "idle" /\ thr'[t].pc = "revoke_update")
                  => (thr'[t].mid \in Mids /\ thr'[t].mid \notin revoked)
        /\ (last' # last /\ last'.op = "revoke" /\ last'.status = 404)
              => (mem' = mem /\ revoked' = revoked /\ issued' = issued
                  /\ uuids' = uuids)
        /\ \A x \in issued' \ issued :
              x.op = "revoke" =>
                  \E t \in Threads :
                      /\ thr[t].pc = "revoke_update" /\ thr[t].mid = x.mid
                      /\ thr'[t].pc = "idle"
                      /\ RevokeReturns(t) # ""
                      /\ Get(x.receipt, "revoke_of") = RevokeReturns(t)
      ]_vars

\* A revoke of an already revoked item was answered 404.
C9_Witness ==
    /\ last.op = "revoke"
    /\ last.status = 404
    /\ last.mid \in revoked

\* C10: every revocation receipt for item mid carries, as revoke_of, the rid
\* of the write receipt returned when mid was created.
C10_RevokeOfIsWriteRid ==
    \A x \in issued :
        x.op = "revoke" =>
            /\ Has(x.receipt, "revoke_of")
            /\ \E w \in issued :
                   /\ w.op = "write"
                   /\ w.mid = x.mid
                   /\ Get(w.receipt, "rid") = Get(x.receipt, "revoke_of")
                   /\ ItemOf(x.mid).rid = Get(w.receipt, "rid")

\* Revocation receipts for two different items have been issued.
C10_Witness ==
    Cardinality({ x.mid : x \in { y \in issued : y.op = "revoke" } }) >= 2

\* C11: the issuer produces two receipt shapes only: a write receipt has badge
\* green, flags ["mem.write"] and no revoke_of; a revocation receipt has
\* badge amber, flags ["mem.revoke", mid] and a non-empty revoke_of; no
\* issued receipt has another badge.
C11_TwoReceiptShapes ==
    \A x \in issued :
        /\ Get(x.receipt, "badge") \in {"green", "amber"}
        /\ x.op \in {"write", "revoke"}
        /\ x.op = "write" =>
               /\ Get(x.receipt, "badge") = "green"
               /\ Get(x.receipt, "flags") = <<"mem.write">>
               /\ ~Has(x.receipt, "revoke_of")
        /\ x.op = "revoke" =>
               /\ Get(x.receipt, "badge") = "amber"
               /\ Get(x.receipt, "flags") = <<"mem.revoke", x.mid>>
               /\ Has(x.receipt, "revoke_of")
               /\ Get(x.receipt, "revoke_of") \notin {"", NoneVal}

\* A write receipt and a revocation receipt have both been issued.
C11_Witness ==
    /\ \E x \in issued : x.op = "write"
    /\ \E x \in issued : x.op = "revoke"

\* The live items a search for (q, tags) is specified to match: q is a
\* substring of the text without regard to case, or a requested tag is on
\* the item.
SpecifiedMatches(q, tags) ==
    { mem[i].mid : i \in
        { j \in 1..Len(mem) :
            /\ mem[j].mid \notin revoked
            /\ \/ IsSubstr(Lower(q), Lower(mem[j].text))
               \/ /\ ~tags.none
                  /\ \E a \in 1..Len(tags.v) : \E b \in 1..Len(mem[j].tags) :
                         tags.v[a] = mem[j].tags[b] } }
ResultMids == { last.results[i].mid : i \in 1..Len(last.results) }

\* C12: on either backend a search returns the ids of the live items whose
\* text contains q (case-insensitively) or that carry a requested tag: all
\* of them when they fit the limit, otherwise limit-many of them.
C12_BackendsAgree ==
    last.op = "search" =>
        LET want == SpecifiedMatches(last.q, last.tags)
        IN  /\ ResultMids \subseteq want
            /\ Cardinality(ResultMids) = Min(Limit(last.top_k), Cardinality(want))

\* A sig string that starts with the tag "ed25519:" followed by the base64
\* text of a signature and nothing else.
PrefixedSig(sig) ==
    /\ sig.ty = "str"
    /\ Len(sig.toks) = 2
    /\ sig.toks[1] = TagTok("ed25519:")
    /\ sig.toks[2].kind = "b64sig"

\* C13: a receipt whose sig string lacks the "ed25519:" prefix (no prefix,
\* another prefix, the tag elsewhere than at the start) or is not decodable
\* is answered valid:false with UnsupportedSignature, and no key has been
\* resolved or tried for it.
C13_UnprefixedSigRejected ==
    (IsVerify /\ last.status # 400
              /\ Get(last.payload, "sig").ty = "str"
              /\ ~PrefixedSig(Get(last.payload, "sig")))
        => /\ ~last.valid
           /\ last.error = "UnsupportedSignature"
           /\ last.fetches = 0
           /\ last.tried = NoneVal

\* C14: a verify call, whatever the body and the outcome, leaves the stored
\* items (their rids included), the revoked flags, the backend, the receipts
\* issued and the identifiers drawn as they were.
C14_VerifyLeavesStore ==
    [][ (last'.op = "verify" /\ last' # last)
            => /\ mem' = mem
               /\ revoked' = revoked
               /\ use_sqlite' = use_sqlite
               /\ issued' = issued
               /\ uuids' = uuids
               /\ thr' = thr ]_vars

\* A receipt was verified while the store held a revoked item.
C14_Witness ==
    /\ IsVerify
    /\ mem # <<>>
    /\ revoked # {}

\* The key records the verification resolved: the fetched document's keys,
\* or the record of the local key.
ResolvedKeys ==
    IF last.source = "fetched" THEN last.resp.keys
    ELSE <<KeyEntry(KEY_ID, PUBKEY_B64)>>
\* The issuer those records belong to.
ResolvedIssuer == IF last.source = "fetched" THEN PostedIssuer ELSE ISSUER_DID

\* C15: whenever the answer is valid:true, the kid in it is the kid of the
\* key record whose public key verified the signature, and the issuer in it
\* is the issuer whose key set supplied that record.
C15_EchoesResolvedIdentity ==
    (IsVerify /\ last.valid)
        => /\ \E i \in 1..Len(ResolvedKeys) :
                  /\ ResolvedKeys[i].isObj
                  /\ ResolvedKeys[i].publicKeyBase64 = last.tried
                  /\ ResolvedKeys[i].kid = last.kid
           /\ last.issuer = ResolvedIssuer

\* The resolved key records whose kid is the kid of the posted receipt.
KidHits ==
    { i \in 1..Len(ResolvedKeys) :
        ResolvedKeys[i].isObj /\ ResolvedKeys[i].kid = Get(last.payload, "kid") }

\* C16: the one key a verification checks the signature against is the key
\* of a resolved record whose kid equals the receipt's kid whenever such a
\* record is published, and the key of the first published record only when
\* no record has that kid.
C16_KeySelection ==
    (IsVerify /\ last.tried # NoneVal)
        => IF KidHits # {}
           THEN \E i \in KidHits : ResolvedKeys[i].publicKeyBase64 = last.tried
           ELSE /\ Len(ResolvedKeys) >= 1
                /\ ResolvedKeys[1].publicKeyBase64 = last.tried

\* C17: a verify call for the local issuer sends no discovery request; a
\* call for a foreign issuer sends at most one (a failed request is not
\* repeated), and only when the body has every required field.
C17_FetchCount ==
    IsVerify =>
        /\ last.fetches \in {0, 1}
        /\ (Has(last.payload, "issuer") /\ PostedIssuer = ISSUER_DID)
               => (last.fetches = 0 /\ last.resp = NoFetch)
        /\ last.fetches = 1 =>
               \A i \in 1..Len(Required) : Has(last.payload, Required[i])
        /\ last.status = 400 => last.fetches = 0

\* A foreign issuer's discovery request failed and the call went on.
C17_Witness ==
    /\ IsVerify
    /\ last.fetches = 1
    /\ PostedIssuer # ISSUER_DID
    /\ last.resp.kind = "error"
    /\ last.status = 200

\* The live items the backend in use selects for the last search, and the
\* ones among them that are not in its result.
Selected == Matching(last.q, last.tags)
LeftOut ==
    { i \in 1..Len(Selected) : Selected[i].mid \notin ResultMids }

HostPortPath(b) ==
    /\ Len(b) % 2 = 1
    /\ \A i \in 1..Len(b) :
           IF i % 2 = 1 THEN b[i] \in DidNames
           ELSE b[i] = "/" \/ (i = 2 /\ b[i] = ":")

\* C19: for an identifier did:web:<host[:port][/path]> the discovery address
\* is https://<host[:port][/path]>/.well-known/receipts.json with host, port
\* (behind its colon) and path as they are; an identifier that does not
\* start with did:web: has no address.
C19_WellKnownAddress ==
    last.op = "wellknown" =>
        LET did == last.did
        IN  IF Len(did) >= 1 /\ did[1] = "did:web:"
            THEN HostPortPath(Tail(did)) =>
                     last.url = <<"https://">> \o Tail(did)
                                    \o <<"/.well-known/receipts.json">>
            ELSE last.url = NoUrl

\* Two mappings hold the same key/value pairs, whatever the insertion order,
\* at every nesting level.
RECURSIVE SameMapping(_, _)
SameMapping(a, b) ==
    /\ Len(a) = Len(b)
    /\ \A i \in 1..Len(a) :
           /\ Has(b, a[i][1])
           /\ IF a[i][1] \in ObjectKeys
              THEN SameMapping(a[i][2], Get(b, a[i][1]))
              ELSE a[i][2] = Get(b, a[i][1])

\* C20: two field mappings with the same key/value pairs in different
\* insertion orders, at every nesting level, have the same canonical bytes,
\* and a signature the issuer made over one is accepted by the verifier's
\* check over the other: both take their payload from canonical.
C20_CanonicalOrderIndependent ==
    (last.op = "canonical" /\ SameMapping(last.signed, last.checked))
        => /\ last.signedBytes = last.checkedBytes
           /\ last.verifies

\* The same mapping was canonicalized from two insertion orders that differ
\* at the top level and inside the innermost object.
C20_Witness ==
    /\ last.op = "canonical"
    /\ SameMapping(last.signed, last.checked)
    /\ last.signed[1][1] # last.checked[1][1]
    /\ Get(Get(last.signed, "meta"), "meta")[1][1]
           # Get(Get(last.checked, "meta"), "meta")[1][1]

=============================================================================
